---- MODULE Spec2Model ----
(***************************************************************************)
(* A model of httpbandwidthspeedtester (src/src/main.rs): main splits a    *)
(* resource into byte ranges, spawns one start_download task per range and *)
(* one print_loop task, all sharing one DownloadState behind a Mutex.      *)
(*                                                                         *)
(* Time is a discrete clock `now` counted in seconds.  Tasks are tokio     *)
(* tasks on the multi-thread runtime: a task is either pending at an await *)
(* or running (being polled); JoinHandle::abort takes effect only once the *)
(* task is pending.                                                        *)
(***************************************************************************)
EXTENDS Integers, Sequences, FiniteSets, TLC

\* ------------------------------------------------------------------ bounds

\* Chunks the response bodies of one run deliver at most, all workers together.
MaxChunks == 2
\* Last value of the clock.
MaxTime == 1
\* Content lengths and worker counts explored by the range computation.
MaxRangeLen == 12
MaxRangeCpus == 4
\* Calls of update_state and clock values explored by the aggregator runs.
MaxAggCalls == 3
MaxAggTime == 3

\* chunk.len() of the chunks a body stream yields.
ChunkSizes == {1, 2}

\* num_cpus::get() of the hosts of the whole-program runs.
CpuCounts == {1, 2}

\* --------------------------------------------------------- program constants

\* u64::MAX, the value (i + 1) * bytes_per_cpu - 1 wraps to when the product is
\* 0 and overflow checks are off.  2^64 - 1 is beyond TLC's integers; it is
\* modelled by the largest integer TLC has, which like 2^64 - 1 is above every
\* content length and every range start of the model.
U64_MAX == 2147483647

\* Duration::from_secs(1): the window length and the period of print_loop.
OneSecond == 1

\* past_seconds keeps at most this many windows.
Capacity == 10

\* ------------------------------------------------------------------ helpers

RECURSIVE SeqSum(_)
SeqSum(s) == IF s = <<>> THEN 0 ELSE Head(s) + SeqSum(Tail(s))

Max(a, b) == IF a >= b THEN a ELSE b

\* AvgSpeed dividing by the capacity of past_seconds, not by its length.
AvgSpeedOverCapacity(past) == SeqSum(past) \div Capacity

\* past_seconds.iter().sum() / max(past_seconds.len(), 1)
AvgSpeed(past) == SeqSum(past) \div Max(Len(past), 1)

\* ------------------------------------------------------- range computation

\* Whether (i + 1) * bytes_per_cpu - 1 of iteration i underflows u64: the last
\* iteration does not compute it.
EndUnderflows(i, n, bpc) == i # n - 1 /\ (i + 1) * bpc < 1

\* The `end` string of iteration i of the spawn loop: <<>> is the empty string,
\* <<e>> the decimal text of e.  An underflow that is not checked wraps.
RangeEnd(i, n, bpc) ==
    IF i = n - 1
    THEN <<>>
    ELSE IF EndUnderflows(i, n, bpc) THEN <<U64_MAX>> ELSE <<(i + 1) * bpc - 1>>

\* The header "bytes={start}-{end}" as its two fields.
RangeHeader(i, n, bpc) == [start |-> i * bpc, end |-> RangeEnd(i, n, bpc)]

\* --------------------------------------------------------------- aggregator

\* DownloadState { .. } as main constructs it at time t.
NewDownloadState(t) ==
    [bytes_last_second |-> 0,
     past_seconds |-> <<>>,
     last_second |-> t,
     total_bytes_downloaded |-> 0]

\* PushWindow evicting one window too late.
PushWindowLate(past, v) ==
    LET pushed == Append(past, v)
    IN  IF Len(pushed) > Capacity + 1 THEN Tail(pushed) ELSE pushed

\* PushWindow with pop_back for pop_front.
PushWindowPopBack(past, v) ==
    LET pushed == Append(past, v)
    IN  IF Len(pushed) > Capacity THEN SubSeq(pushed, 1, Len(pushed) - 1) ELSE pushed

\* past_seconds after push_back(v) and the pop_front that follows it.
PushWindow(past, v) ==
    LET pushed == Append(past, v)
    IN  IF Len(pushed) > Capacity THEN Tail(pushed) ELSE pushed

\* Whether update_state, called at time t, closes the window.
SecondPassed(s, t) == t - s.last_second >= OneSecond

\* update_state adding to the total only when no window closes.
update_state_total_in_else(s, bytes, t) ==
    LET added == s.bytes_last_second + bytes
    IN  IF t - s.last_second >= OneSecond
        THEN [bytes_last_second |-> 0,
              past_seconds |-> PushWindow(s.past_seconds, added),
              last_second |-> t,
              total_bytes_downloaded |-> s.total_bytes_downloaded]
        ELSE [s EXCEPT !.bytes_last_second = added,
                       !.total_bytes_downloaded = s.total_bytes_downloaded + bytes]

\* update_state closing the window before it adds the chunk.
update_state_close_first(s, bytes, t) ==
    IF t - s.last_second >= OneSecond
    THEN [bytes_last_second |-> bytes,
          past_seconds |-> PushWindow(s.past_seconds, s.bytes_last_second),
          last_second |-> t,
          total_bytes_downloaded |-> s.total_bytes_downloaded + bytes]
    ELSE [s EXCEPT !.bytes_last_second = s.bytes_last_second + bytes,
                   !.total_bytes_downloaded = s.total_bytes_downloaded + bytes]

\* The body of update_state for a chunk of `bytes` bytes at time t.
\* update_state closing a window and keeping its bytes in the open one.
update_state_no_reset(s, bytes, t) ==
    LET added == s.bytes_last_second + bytes
    IN  IF SecondPassed(s, t)
        THEN [bytes_last_second |-> added,
              past_seconds |-> PushWindow(s.past_seconds, added),
              last_second |-> t,
              total_bytes_downloaded |-> s.total_bytes_downloaded + bytes]
        ELSE [s EXCEPT !.bytes_last_second = added,
                       !.total_bytes_downloaded = s.total_bytes_downloaded + bytes]

\* update_state closing a window without restarting the clock.
update_state_keeps_start(s, bytes, t) ==
    LET added == s.bytes_last_second + bytes
    IN  IF SecondPassed(s, t)
        THEN [bytes_last_second |-> 0,
              past_seconds |-> PushWindow(s.past_seconds, added),
              last_second |-> s.last_second,
              total_bytes_downloaded |-> s.total_bytes_downloaded + bytes]
        ELSE [s EXCEPT !.bytes_last_second = added,
                       !.total_bytes_downloaded = s.total_bytes_downloaded + bytes]

\* update_state starting the open window from the chunk, not from the sum.
update_state_overwrites(s, bytes, t) ==
    LET added == s.bytes_last_second + bytes
    IN  IF SecondPassed(s, t)
        THEN [bytes_last_second |-> 0,
              past_seconds |-> PushWindow(s.past_seconds, added),
              last_second |-> t,
              total_bytes_downloaded |-> s.total_bytes_downloaded + bytes]
        ELSE [s EXCEPT !.bytes_last_second = bytes,
                       !.total_bytes_downloaded = s.total_bytes_downloaded + bytes]

update_state(s, bytes, t) ==
    LET added == s.bytes_last_second + bytes
    IN  IF SecondPassed(s, t)
        THEN [bytes_last_second |-> 0,
              past_seconds |-> PushWindow(s.past_seconds, added),
              last_second |-> t,
              total_bytes_downloaded |-> s.total_bytes_downloaded + bytes]
        ELSE [s EXCEPT !.bytes_last_second = added,
                       !.total_bytes_downloaded = s.total_bytes_downloaded + bytes]

\* -------------------------------------------------------------------- state

VARIABLES
    header,          \* the metadata response's content-length header: [kind, value]
    num_cpus,        \* num_cpus::get()
    overflow_checks, \* whether the build checks integer overflow (debug) or wraps (release)
    mpc,             \* where main is
    content_length,  \* main's local of that name
    bytes_per_cpu,   \* main's local of that name
    ranges,          \* the Range headers built so far, in spawn order
    joined,          \* how many handles main has awaited successfully
    state,           \* the DownloadState behind the Mutex
    lock,            \* the task holding the MutexGuard
    wpc,             \* where each start_download task is
    status,          \* the HTTP status class of each worker's response
    chunk,           \* the chunk each worker last took from its body
    delivered,       \* how many chunks the response bodies have yielded so far
    rpc,             \* where print_loop is
    wake_at,         \* when print_loop's sleep ends
    aborted,         \* whether print_handle.abort() was called
    now,             \* the clock
    out,             \* what was printed: the last line, and whether the summary was printed
    recorded,        \* history: per worker, the chunk lengths of its completed update_state calls, summed
    flushed,         \* history: every value pushed onto past_seconds, in order
    last_call        \* history: the last completed update_state call

vars == <<header, num_cpus, overflow_checks, mpc, content_length, bytes_per_cpu,
          ranges, joined, state, lock, wpc, status, chunk, delivered, rpc,
          wake_at, aborted, now, out, recorded, flushed, last_call>>

envVars == <<header, num_cpus, overflow_checks>>
localVars == <<content_length, bytes_per_cpu>>
workerVars == <<wpc, status, chunk, delivered>>
printVars == <<rpc, wake_at>>
histVars == <<recorded, flushed, last_call>>

Workers == 0 .. (num_cpus - 1)

\* The holders of the lock.
Nobody == [task |-> "none", id |-> 0]
MainTask == [task |-> "main", id |-> 0]
PrintTask == [task |-> "print", id |-> 0]
WorkerTask(w) == [task |-> "worker", id |-> w]

\* The content-length header of the metadata response.
Missing == [kind |-> "missing", value |-> 0]
Invalid == [kind |-> "invalid", value |-> 0]
Valid(len) == [kind |-> "valid", value |-> len]

\* main has returned or panicked: the runtime shuts down and the process exits.
MainOver == mpc \in {"done", "failed", "panicked"}

NoOutput == [last |-> "none", avg |-> 0, total |-> 0, summary |-> FALSE]
NoCall == [worker |-> 0, bytes |-> 0, before |-> 0, flush |-> FALSE]

\* The state before main runs, for n workers and metadata header h.
Start(h, n, checks) ==
    /\ header = h
    /\ num_cpus = n
    /\ overflow_checks = checks
    /\ mpc = "head"
    /\ content_length = 0
    /\ bytes_per_cpu = 0
    /\ ranges = <<>>
    /\ joined = 0
    /\ state = NewDownloadState(0)
    /\ lock = Nobody
    /\ wpc = [w \in 0 .. (n - 1) |-> "unspawned"]
    /\ status = [w \in 0 .. (n - 1) |-> "none"]
    /\ chunk = [w \in 0 .. (n - 1) |-> 0]
    /\ delivered = 0
    /\ rpc = "unspawned"
    /\ wake_at = 0
    /\ aborted = FALSE
    /\ now = 0
    /\ out = NoOutput
    /\ recorded = [w \in 0 .. (n - 1) |-> 0]
    /\ flushed = <<>>
    /\ last_call = NoCall

Init ==
    \E h \in {Missing, Invalid, Valid(1)}, n \in CpuCounts, checks \in BOOLEAN :
        Start(h, n, checks)

\* --------------------------------------------------------------------- main

\* MainSetup reading the header with a default of 0 in place of the unwraps.
MainSetupDefaultsLength ==
    /\ mpc = "head"
    /\ \/ /\ mpc' \in {"failed", "stalled"}
          /\ UNCHANGED <<localVars, state, printVars>>
       \/ /\ content_length' = IF header.kind = "valid" THEN header.value ELSE 0
          /\ bytes_per_cpu' = content_length' \div num_cpus
          /\ state' = NewDownloadState(now)
          /\ rpc' = "sleep"
          /\ wake_at' = now + OneSecond
          /\ mpc' = "spawn"
    /\ UNCHANGED <<envVars, ranges, joined, aborted, lock, workerVars, now, out, histVars>>

\* Lines 111-128: the metadata request fails (the `?` returns the error) or is
\* never answered (no timeout is set: main waits at line 111 for ever), or the
\* header is read (an unwrap panics when it is missing or not a number), the
\* state is created and print_loop is spawned.
MainSetup ==
    /\ mpc = "head"
    /\ \/ /\ mpc' \in {"failed", "stalled"}
          /\ UNCHANGED <<localVars, state, printVars>>
       \/ /\ header.kind # "valid"
          /\ mpc' = "panicked"
          /\ UNCHANGED <<localVars, state, printVars>>
       \/ /\ header.kind = "valid"
          /\ content_length' = header.value
          /\ bytes_per_cpu' = header.value \div num_cpus
          /\ state' = NewDownloadState(now)
          /\ rpc' = "sleep"
          /\ wake_at' = now + OneSecond
          /\ mpc' = "spawn"
    /\ UNCHANGED <<envVars, ranges, joined, aborted, lock, workerVars, now, out, histVars>>

\* Lines 132-144: one iteration of the spawn loop, for i = Len(ranges).  With
\* overflow checks the underflow of the end bound panics.
MainSpawn ==
    /\ mpc = "spawn"
    /\ LET i == Len(ranges)
       IN  IF overflow_checks /\ EndUnderflows(i, num_cpus, bytes_per_cpu)
           THEN /\ mpc' = "panicked"
                /\ UNCHANGED <<ranges, wpc>>
           ELSE /\ ranges' = Append(ranges, RangeHeader(i, num_cpus, bytes_per_cpu))
                /\ wpc' = [wpc EXCEPT ![i] = "request"]
                /\ mpc' = IF i + 1 = num_cpus THEN "join" ELSE "spawn"
    /\ UNCHANGED <<envVars, localVars, joined, aborted, state, lock, status, chunk,
                   delivered, printVars, now, out, histVars>>

\* MainJoin awaiting the first handle only.
MainJoinFirstOnly ==
    /\ mpc = "join"
    /\ wpc[joined] \in {"ok", "err"}
    /\ joined' = joined + 1
    /\ mpc' = IF wpc[joined] = "err" THEN "failed" ELSE "abort"
    /\ UNCHANGED <<envVars, localVars, ranges, aborted, state, lock, workerVars,
                   printVars, now, out, histVars>>

\* MainJoin with `handle.await?`: the worker's own result is dropped.
MainJoinIgnoresErr ==
    /\ mpc = "join"
    /\ wpc[joined] \in {"ok", "err"}
    /\ joined' = joined + 1
    /\ mpc' = IF joined + 1 = num_cpus THEN "abort" ELSE "join"
    /\ UNCHANGED <<envVars, localVars, ranges, aborted, state, lock, workerVars,
                   printVars, now, out, histVars>>

\* Lines 147-149: `handle.await??` on the next handle, in spawn order.
MainJoin ==
    /\ mpc = "join"
    /\ wpc[joined] \in {"ok", "err"}
    /\ IF wpc[joined] = "err"
       THEN /\ mpc' = "failed"
            /\ UNCHANGED joined
       ELSE /\ joined' = joined + 1
            /\ mpc' = IF joined + 1 = num_cpus THEN "abort" ELSE "join"
    /\ UNCHANGED <<envVars, localVars, ranges, aborted, state, lock, workerVars,
                   printVars, now, out, histVars>>

\* Line 152: print_handle.abort().
MainAbort ==
    /\ mpc = "abort"
    /\ aborted' = TRUE
    /\ mpc' = "lock"
    /\ UNCHANGED <<envVars, localVars, ranges, joined, state, lock, workerVars,
                   printVars, now, out, histVars>>

\* Line 155: download_state.lock().await.
MainLock ==
    /\ mpc = "lock"
    /\ lock = Nobody
    /\ lock' = MainTask
    /\ mpc' = "summary"
    /\ UNCHANGED <<envVars, localVars, ranges, joined, aborted, state, workerVars,
                   printVars, now, out, histVars>>

\* Lines 156-162: the summary line, then main returns and its guard is dropped.
MainSummary ==
    /\ mpc = "summary"
    /\ out' = [last |-> "summary",
               avg |-> AvgSpeed(state.past_seconds),
               total |-> state.total_bytes_downloaded,
               summary |-> TRUE]
    /\ lock' = Nobody
    /\ mpc' = "done"
    /\ UNCHANGED <<envVars, localVars, ranges, joined, aborted, state, workerVars,
                   printVars, now, histVars>>

\* ------------------------------------------------------------------ workers

\* Line 61: client.request(request).await? fails, is never answered (no
\* timeout is set: the task waits at line 61 for ever), or gives a response of
\* either status class (the status is not looked at) whose body is taken.  The
\* end of main does not stop a task that is being polled: it runs on through
\* every await that is ready (see WorkerCancel).
WorkerRequest(w) ==
    /\ wpc[w] = "request"
    /\ \/ /\ wpc' = [wpc EXCEPT ![w] = "err"]
          /\ UNCHANGED status
       \/ /\ wpc' = [wpc EXCEPT ![w] = "stalled"]
          /\ UNCHANGED status
       \/ \E s \in {"success", "error"} :
            /\ status' = [status EXCEPT ![w] = s]
            /\ wpc' = [wpc EXCEPT ![w] = "lock_start"]
    /\ UNCHANGED <<envVars, mpc, localVars, ranges, joined, aborted, state, lock, chunk,
                   delivered, printVars, now, out, histVars>>

\* Line 65: download_state.lock().await.
WorkerLockStart(w) ==
    /\ wpc[w] = "lock_start"
    /\ lock = Nobody
    /\ lock' = WorkerTask(w)
    /\ wpc' = [wpc EXCEPT ![w] = "set_start"]
    /\ UNCHANGED <<envVars, mpc, localVars, ranges, joined, aborted, state, status, chunk,
                   delivered, printVars, now, out, histVars>>

\* Lines 66-67: state.last_second = Instant::now(); drop(state).
WorkerSetStart(w) ==
    /\ wpc[w] = "set_start"
    /\ state' = [state EXCEPT !.last_second = now]
    /\ lock' = Nobody
    /\ wpc' = [wpc EXCEPT ![w] = "stream"]
    /\ UNCHANGED <<envVars, mpc, localVars, ranges, joined, aborted, status, chunk,
                   delivered, printVars, now, out, histVars>>

\* Lines 70-71: body.next().await gives a chunk, an error (the `?` returns it),
\* the end of the body, or nothing ever (the server stops sending).  The
\* bodies yield at most `max` chunks in all.
WorkerNextUpTo(w, max) ==
    /\ wpc[w] = "stream"
    /\ \/ /\ delivered < max
          /\ \E n \in ChunkSizes : chunk' = [chunk EXCEPT ![w] = n]
          /\ delivered' = delivered + 1
          /\ wpc' = [wpc EXCEPT ![w] = "lock_update"]
       \/ /\ wpc' = [wpc EXCEPT ![w] = "err"]
          /\ UNCHANGED <<chunk, delivered>>
       \/ /\ wpc' = [wpc EXCEPT ![w] = "ok"]
          /\ UNCHANGED <<chunk, delivered>>
       \/ /\ wpc' = [wpc EXCEPT ![w] = "stalled"]
          /\ UNCHANGED <<chunk, delivered>>
    /\ UNCHANGED <<envVars, mpc, localVars, ranges, joined, aborted, state, lock, status,
                   printVars, now, out, histVars>>

WorkerNext(w) == WorkerNextUpTo(w, MaxChunks)

\* WorkerLockUpdate taking the guard without waiting for the lock to be free.
WorkerLockUpdateNoWait(w) ==
    /\ wpc[w] = "lock_update"
    /\ lock' = WorkerTask(w)
    /\ wpc' = [wpc EXCEPT ![w] = "update"]
    /\ UNCHANGED <<envVars, mpc, localVars, ranges, joined, aborted, state, status, chunk,
                   delivered, printVars, now, out, histVars>>

\* Line 25: download_state.lock().await in update_state.
WorkerLockUpdate(w) ==
    /\ wpc[w] = "lock_update"
    /\ lock = Nobody
    /\ lock' = WorkerTask(w)
    /\ wpc' = [wpc EXCEPT ![w] = "update"]
    /\ UNCHANGED <<envVars, mpc, localVars, ranges, joined, aborted, state, status, chunk,
                   delivered, printVars, now, out, histVars>>

\* What a completed update_state call of worker w with `bytes` bytes adds to the
\* history.
Remember(w, bytes) ==
    /\ recorded' = [recorded EXCEPT ![w] = @ + bytes]
    /\ flushed' = IF SecondPassed(state, now)
                  THEN Append(flushed, state.bytes_last_second + bytes)
                  ELSE flushed
    /\ last_call' = [worker |-> w, bytes |-> bytes, before |-> state.bytes_last_second,
                     flush |-> SecondPassed(state, now)]

\* Lines 26-48: the rest of update_state, under the guard, which is dropped.
WorkerUpdate(w) ==
    /\ wpc[w] = "update"
    /\ state' = update_state(state, chunk[w], now)
    /\ Remember(w, chunk[w])
    /\ lock' = Nobody
    /\ wpc' = [wpc EXCEPT ![w] = "stream"]
    /\ UNCHANGED <<envVars, mpc, localVars, ranges, joined, aborted, status, chunk,
                   delivered, printVars, now, out>>

\* When main returns or panics the runtime shuts down: a task that is pending
\* at an await (the response, the lock or the next chunk is not there) is
\* dropped there and never polled again.
WorkerCancel(w) ==
    /\ MainOver
    /\ wpc[w] \in {"request", "lock_start", "stream", "lock_update", "stalled"}
    /\ wpc' = [wpc EXCEPT ![w] = "cancelled"]
    /\ UNCHANGED <<envVars, mpc, localVars, ranges, joined, aborted, state, lock, status,
                   chunk, delivered, printVars, now, out, histVars>>

\* --------------------------------------------------------------- print_loop

\* Line 83: the sleep ends and the task is polled.  An aborted task is not
\* polled again.
PrintWake ==
    /\ ~MainOver
    /\ ~aborted
    /\ rpc = "sleep"
    /\ now >= wake_at
    /\ rpc' = "lock_poll"
    /\ UNCHANGED <<envVars, mpc, localVars, ranges, joined, aborted, state, lock,
                   workerVars, wake_at, now, out, histVars>>

\* Line 85: the running task finds the lock held and becomes pending.
PrintBlock ==
    /\ rpc = "lock_poll"
    /\ lock # Nobody
    /\ rpc' = "lock_wait"
    /\ UNCHANGED <<envVars, mpc, localVars, ranges, joined, aborted, state, lock,
                   workerVars, wake_at, now, out, histVars>>

\* Line 85: the lock is acquired, by the running task (which an abort or the
\* shutdown of the runtime does not stop before its next pending await) or by
\* the pending one when it is polled again.
PrintLock ==
    /\ \/ rpc = "lock_poll"
       \/ rpc = "lock_wait" /\ ~aborted /\ ~MainOver
    /\ lock = Nobody
    /\ lock' = PrintTask
    /\ rpc' = "print"
    /\ UNCHANGED <<envVars, mpc, localVars, ranges, joined, aborted, state, workerVars,
                   wake_at, now, out, histVars>>

\* PrintTick starting a new window each time it prints.
PrintTickResets ==
    /\ rpc = "print"
    /\ out' = [out EXCEPT !.last = "status", !.avg = AvgSpeed(state.past_seconds)]
    /\ state' = [state EXCEPT !.bytes_last_second = 0, !.last_second = now]
    /\ lock' = Nobody
    /\ rpc' = "sleep"
    /\ wake_at' = now + OneSecond
    /\ UNCHANGED <<envVars, mpc, localVars, ranges, joined, aborted, workerVars,
                   now, histVars>>

\* Lines 88-95 and 83: the status line is printed, the guard is dropped and the
\* next sleep starts.
PrintTick ==
    /\ rpc = "print"
    /\ out' = [out EXCEPT !.last = "status", !.avg = AvgSpeed(state.past_seconds)]
    /\ lock' = Nobody
    /\ rpc' = "sleep"
    /\ wake_at' = now + OneSecond
    /\ UNCHANGED <<envVars, mpc, localVars, ranges, joined, aborted, state, workerVars,
                   now, histVars>>

\* The aborted task, or any task when the runtime shuts down, is dropped at
\* the await it is pending at.
PrintCancel ==
    /\ aborted \/ MainOver
    /\ rpc \in {"sleep", "lock_wait"}
    /\ rpc' = "cancelled"
    /\ UNCHANGED <<envVars, mpc, localVars, ranges, joined, aborted, state, lock,
                   workerVars, wake_at, now, out, histVars>>

\* -------------------------------------------------------------------- clock

\* Whether a task is still being polled.
Polled ==
    \/ \E w \in Workers :
         wpc[w] \in {"request", "lock_start", "set_start", "stream", "lock_update", "update"}
    \/ rpc \in {"lock_poll", "print"}

\* Time passes as long as the process has not exited.
Tick ==
    /\ ~MainOver \/ Polled
    /\ now < MaxTime
    /\ now' = now + 1
    /\ UNCHANGED <<envVars, mpc, localVars, ranges, joined, aborted, state, lock,
                   workerVars, printVars, out, histVars>>

\* ----------------------------------------------------------- specifications

Next ==
    \/ MainSetup
    \/ MainSpawn
    \/ MainJoin
    \/ MainAbort
    \/ MainLock
    \/ MainSummary
    \/ \E w \in Workers : WorkerRequest(w)
    \/ \E w \in Workers : WorkerLockStart(w)
    \/ \E w \in Workers : WorkerSetStart(w)
    \/ \E w \in Workers : WorkerNext(w)
    \/ \E w \in Workers : WorkerLockUpdate(w)
    \/ \E w \in Workers : WorkerUpdate(w)
    \/ \E w \in Workers : WorkerCancel(w)
    \/ PrintWake
    \/ PrintBlock
    \/ PrintLock
    \/ PrintTick
    \/ PrintCancel
    \/ Tick

\* The whole program.
Spec == Init /\ [][Next]_vars

\* The whole program under fair scheduling: every task that can take a step
\* eventually takes it, time passes, and the Mutex (a FIFO semaphore) serves
\* every task that keeps asking for it.  The server is not assumed to answer:
\* a request or a body that is never answered is an outcome of MainSetup,
\* WorkerRequest and WorkerNext ("stalled"), and fairness on these actions only
\* says that one of their outcomes comes about.
FairSpec ==
    /\ Spec
    /\ WF_vars(MainSetup) /\ WF_vars(MainSpawn) /\ WF_vars(MainJoin)
    /\ WF_vars(MainAbort) /\ SF_vars(MainLock) /\ WF_vars(MainSummary)
    /\ \A w \in 0 .. 1 :
         /\ WF_vars(w \in Workers /\ WorkerRequest(w))
         /\ SF_vars(w \in Workers /\ WorkerLockStart(w))
         /\ WF_vars(w \in Workers /\ WorkerSetStart(w))
         /\ WF_vars(w \in Workers /\ WorkerNext(w))
         /\ SF_vars(w \in Workers /\ WorkerLockUpdate(w))
         /\ WF_vars(w \in Workers /\ WorkerUpdate(w))
         /\ WF_vars(w \in Workers /\ WorkerCancel(w))
    /\ WF_vars(PrintWake) /\ WF_vars(PrintBlock) /\ SF_vars(PrintLock)
    /\ WF_vars(PrintTick) /\ WF_vars(PrintCancel)
    /\ WF_vars(Tick)

\* ---------------------------------------------- the range computation alone

\* main up to the end of its spawn loop, for more content lengths and worker
\* counts; the spawned tasks are not scheduled.
InitRange ==
    \E h \in {Missing, Invalid} \cup {Valid(len) : len \in 0 .. MaxRangeLen},
       n \in 1 .. MaxRangeCpus, checks \in BOOLEAN :
        Start(h, n, checks)

NextRange ==
    \/ MainSetup
    \/ MainSpawn

SpecRange == InitRange /\ [][NextRange]_vars

\* --------------------------------------------------- the aggregator at length

\* past_seconds after `len` windows that closed with 1 and 2 bytes in turn.
Warm(len, p) == [k \in 1 .. len |-> IF (k + p) % 2 = 0 THEN 1 ELSE 2]

\* A run in progress: main awaits the first handle, every worker is reading its
\* body, worker 0 has recorded `len` chunks and each closed a window.  The clock
\* is counted from the last of them.
InitAgg ==
    \E n \in CpuCounts, len \in 0 .. Capacity, p \in 0 .. 1 :
        /\ header = Valid(n)
        /\ num_cpus = n
        /\ overflow_checks = FALSE
        /\ mpc = "join"
        /\ content_length = n
        /\ bytes_per_cpu = 1
        /\ ranges = [k \in 1 .. n |-> RangeHeader(k - 1, n, 1)]
        /\ joined = 0
        /\ state = [bytes_last_second |-> 0,
                    past_seconds |-> Warm(len, p),
                    last_second |-> 0,
                    total_bytes_downloaded |-> SeqSum(Warm(len, p))]
        /\ lock = Nobody
        /\ wpc = [w \in 0 .. (n - 1) |-> "stream"]
        /\ status = [w \in 0 .. (n - 1) |-> "success"]
        /\ chunk = [w \in 0 .. (n - 1) |-> 0]
        /\ delivered = 0
        /\ rpc = "sleep"
        /\ wake_at = OneSecond
        /\ aborted = FALSE
        /\ now = 0
        /\ out = NoOutput
        /\ recorded = [w \in 0 .. (n - 1) |-> IF w = 0 THEN SeqSum(Warm(len, p)) ELSE 0]
        /\ flushed = Warm(len, p)
        /\ last_call = NoCall

\* Time passes for the workers alone.
AggTick ==
    /\ now < MaxAggTime
    /\ now' = now + 1
    /\ UNCHANGED <<envVars, mpc, localVars, ranges, joined, aborted, state, lock,
                   workerVars, printVars, out, histVars>>

\* The workers alone, for more chunks and more time: each takes a chunk at
\* line 70, waits for the lock at line 25 and records under the guard, the
\* other worker running in between.
NextAgg ==
    \/ \E w \in Workers : WorkerNextUpTo(w, MaxAggCalls)
    \/ \E w \in Workers : WorkerLockUpdate(w)
    \/ \E w \in Workers : WorkerUpdate(w)
    \/ AggTick

SpecAgg == InitAgg /\ [][NextAgg]_vars

\* ------------------------------------------------- the end of a long run

\* The run in progress of InitAgg, carried on by every task to its end: the
\* workers read their bodies, print_loop ticks, main awaits the handles and
\* prints the summary.
NextLate ==
    \/ MainJoin
    \/ MainAbort
    \/ MainLock
    \/ MainSummary
    \/ \E w \in Workers : WorkerNext(w)
    \/ \E w \in Workers : WorkerLockUpdate(w)
    \/ \E w \in Workers : WorkerUpdate(w)
    \/ \E w \in Workers : WorkerCancel(w)
    \/ PrintWake
    \/ PrintBlock
    \/ PrintLock
    \/ PrintTick
    \/ PrintCancel
    \/ Tick

SpecLate == InitAgg /\ [][NextLate]_vars

\* ------------------------------------------------------------------- claims

Min(a, b) == IF a <= b THEN a ELSE b

\* The last n elements of s.
LastN(s, n) == SubSeq(s, Len(s) - n + 1, Len(s))

\* The bytes of a resource of `len` bytes that Range header r asks for.
RangeBytes(r, len) ==
    {b \in 0 .. (len - 1) : r.start <= b /\ (r.end = <<>> \/ b <= r.end[1])}

\* Range headers rs split [0, len - 1]: each is a non-empty interval, they
\* follow one another without gap or overlap from 0 to len - 1, and only the
\* last has no upper bound.
IsPartition(rs, len) ==
    /\ rs # <<>>
    /\ rs[1].start = 0
    /\ \A k \in 1 .. Len(rs) :
         /\ (rs[k].end = <<>>) <=> (k = Len(rs))
         /\ IF k = Len(rs)
            THEN rs[k].start <= len - 1
            ELSE /\ rs[k].start <= rs[k].end[1]
                 /\ rs[k + 1].start - 1 = rs[k].end[1]
    /\ \A k, m \in 1 .. Len(rs) :
         k # m => RangeBytes(rs[k], len) \cap RangeBytes(rs[m], len) = {}
    /\ UNION {RangeBytes(rs[k], len) : k \in 1 .. Len(rs)} = 0 .. (len - 1)

\* The chunk lengths of all completed update_state calls, summed.
SumRecorded == SeqSum([k \in 1 .. num_cpus |-> recorded[k - 1]])

\* C1: for every content length >= 1 and every worker count, the Range headers
\* the spawn loop has built when it ends are one per worker and partition
\* [0, content length - 1].
C1_RangesPartition ==
    (header.kind = "valid" /\ header.value >= 1 /\ mpc = "join")
        => (Len(ranges) = num_cpus /\ IsPartition(ranges, header.value))

\* C2: whatever the interleaving of the workers and whichever windows were
\* closed or evicted, total_bytes_downloaded is the sum of the chunk lengths of all
\* completed update_state calls.
C2_TotalIsSumOfChunks == state.total_bytes_downloaded = SumRecorded

\* Both workers have recorded, two windows were evicted, a third is open, and
\* a worker is still reading its body.
C2_Witness ==
    /\ num_cpus = 2
    /\ recorded[0] > 0
    /\ recorded[1] > 0
    /\ Len(flushed) > Capacity + 1
    /\ Len(state.past_seconds) = Capacity
    /\ state.bytes_last_second > 0
    /\ state.bytes_last_second + SeqSum(state.past_seconds) < state.total_bytes_downloaded
    /\ \E w \in Workers : wpc[w] = "stream"

\* C3: once main has created the state, last_second is written only by an
\* update_state call that closes a window.
C3_StartWrittenOnlyByFlush ==
    [][(mpc # "head" /\ state'.last_second # state.last_second)
           => Len(flushed') = Len(flushed) + 1]_vars

\* C4 as claimed: an update_state call that closes a window pushes the bytes
\* counted before it and leaves bytes_last_second equal to its chunk's length.
C4_FlushOpensWindowWithChunk ==
    last_call.flush
        => /\ state.past_seconds[Len(state.past_seconds)] = last_call.before
           /\ state.bytes_last_second = last_call.bytes

\* C4 as amended: an update_state call that closes a window pushes the bytes
\* counted before it plus its chunk's length, and leaves bytes_last_second 0.
C4_FlushClosesWindowWithChunk ==
    last_call.flush
        => /\ state.past_seconds[Len(state.past_seconds)]
                  = last_call.before + last_call.bytes
           /\ state.bytes_last_second = 0

C4_Witness ==
    /\ last_call.flush
    /\ last_call.before > 0
    /\ state.past_seconds[Len(state.past_seconds)] = last_call.before + last_call.bytes

\* C5: whenever no task is inside a critical section, past_seconds holds at
\* most 10 entries.
C5_AtMostTenWindows == lock = Nobody => Len(state.past_seconds) <= Capacity

C5_Witness ==
    /\ lock = Nobody
    /\ Len(flushed) > Capacity
    /\ Len(state.past_seconds) = Capacity

\* C6: past_seconds is the last min(k, 10) of the k values pushed so far, in
\* the order they were pushed.
C6_Fifo == state.past_seconds = LastN(flushed, Min(Len(flushed), Capacity))

C6_Witness ==
    /\ Len(flushed) > Capacity + 1
    /\ flushed[1] # flushed[Len(flushed)]
    /\ Head(state.past_seconds) = flushed[Len(flushed) - Capacity + 1]

\* C7: a worker that has failed leads to main failing, whatever the other
\* workers do.
C7_FailFast == (\E w \in Workers : wpc[w] = "err") ~> (mpc = "failed")

\* C8: a worker whose response has a non-success status records none of its
\* chunks and does not end well, and no summary is printed.
C8_NonSuccessFails ==
    \A w \in Workers :
        status[w] = "error" => (recorded[w] = 0 /\ wpc[w] # "ok" /\ ~out.summary)

\* C9: once the content length is read, the summary is printed eventually
\* unless the stream of some worker fails or never ends.
C9_SummaryEventually ==
    (header.kind = "valid" /\ mpc = "spawn")
        ~> (mpc = "done" \/ \E w \in Workers : wpc[w] \in {"err", "stalled"})

\* C10: once the summary is printed it stays the last line printed.
C10_SummaryIsLast == out.summary => out.last = "summary"


\* C11: no summary is printed in a run in which a worker has failed, whatever
\* the other workers recorded and whichever finished first.
C11_NoSummaryAfterFailure == (\E w \in Workers : wpc[w] = "err") => ~out.summary

C11_Witness ==
    /\ num_cpus = 2
    /\ wpc[1] = "err"
    /\ wpc[0] = "ok"
    /\ recorded[0] > 0
    /\ mpc = "failed"
    /\ ~out.summary

\* The tasks that are between taking the lock and dropping their guard.
Holders ==
    {WorkerTask(w) : w \in {v \in Workers : wpc[v] \in {"set_start", "update"}}}
        \cup (IF rpc = "print" THEN {PrintTask} ELSE {})
        \cup (IF mpc = "summary" THEN {MainTask} ELSE {})

\* C12: at most one task is inside a critical section, and it is the one the
\* lock names; once main has created the state, every step that writes a
\* field of it is a step of the worker holding the lock, and every step that
\* reads it to print is a step of print_loop or main holding the lock.
C12_MutualExclusion ==
    /\ [](Holders = IF lock = Nobody THEN {} ELSE {lock})
    /\ [][/\ (mpc # "head" /\ state' # state)
                => /\ lock.task = "worker"
                   /\ wpc[lock.id] \in {"set_start", "update"}
                   /\ wpc'[lock.id] = "stream"
                   /\ lock' = Nobody
          /\ out' # out
                => \/ lock = PrintTask /\ rpc = "print" /\ rpc' = "sleep"
                   \/ lock = MainTask /\ mpc = "summary" /\ mpc' = "done"]_vars

C12_Witness ==
    /\ num_cpus = 2
    /\ lock = WorkerTask(0)
    /\ wpc[0] = "update"
    /\ wpc[1] = "lock_update"
    /\ rpc = "lock_wait"

\* C13: every line printed, by print_loop or by main, carries the average q
\* with q * max(len, 1) <= sum < (q + 1) * max(len, 1) for the sum and length
\* of past_seconds at that moment, and 0 when past_seconds is empty.
C13_AverageIsFloor ==
    [][out' # out
          => LET past == state.past_seconds
                 d == IF Len(past) >= 1 THEN Len(past) ELSE 1
             IN  /\ out'.avg * d <= SeqSum(past)
                 /\ SeqSum(past) < (out'.avg + 1) * d
                 /\ past = <<>> => out'.avg = 0]_vars

C13_Witness ==
    /\ out.last = "summary"
    /\ Len(state.past_seconds) >= 2
    /\ SeqSum(state.past_seconds) % Len(state.past_seconds) # 0
    /\ out.avg * Len(state.past_seconds) < SeqSum(state.past_seconds)

\* A status line printed with no window closed although bytes were recorded.
C13_EmptyCase ==
    /\ out.last = "status"
    /\ state.past_seconds = <<>>
    /\ state.total_bytes_downloaded > 0
    /\ out.avg = 0

\* The state after update_state was called with each size of a sequence in
\* turn, none of the calls a second or more after s.last_second.
RECURSIVE RecordAll(_, _, _)
RecordAll(s, sizes, t) ==
    IF sizes = <<>> THEN s
    ELSE RecordAll(update_state(s, Head(sizes), t), Tail(sizes), t)

\* C14: a call of update_state made less than a second after last_second
\* adds its bytes to bytes_last_second and to total_bytes_downloaded and
\* leaves past_seconds and last_second alone; calls of 100, 200 and 50 bytes
\* on a new state leave 350 in both counters.
C14_SubWindowAccumulates ==
    /\ [][(recorded' # recorded /\ ~SecondPassed(state, now))
             => state' = [state EXCEPT
                            !.bytes_last_second = @ + last_call'.bytes,
                            !.total_bytes_downloaded = @ + last_call'.bytes]]_vars
    /\ [](RecordAll(NewDownloadState(now), <<100, 200, 50>>, now)
            = [NewDownloadState(now) EXCEPT !.bytes_last_second = 350,
                                            !.total_bytes_downloaded = 350])

C14_Witness ==
    /\ delivered >= 2
    /\ ~last_call.flush
    /\ last_call.before > 0
    /\ state.bytes_last_second = last_call.before + last_call.bytes
    /\ state.last_second = now

\* C15: when the metadata response has no content-length header, or one that
\* is not a non-negative integer, main stops before line 116: no worker is
\* spawned, no Range header is built, print_loop is not spawned, nothing is
\* recorded and no line is printed.
C15_NoSizeNoDownload ==
    header.kind # "valid"
        => /\ mpc \in {"head", "failed", "stalled", "panicked"}
           /\ \A w \in Workers : wpc[w] = "unspawned"
           /\ ranges = <<>>
           /\ rpc = "unspawned"
           /\ out = NoOutput
           /\ SumRecorded = 0

C15_Witness ==
    /\ header.kind # "valid"
    /\ mpc = "panicked"
    /\ num_cpus = 2

\* C16: a call of update_state made a second or more after last_second
\* pushes bytes_last_second plus the chunk onto the back of past_seconds,
\* drops the front entry if that makes more than 10, and leaves
\* bytes_last_second at 0 and last_second at the time of the call.
C16_FlushStep ==
    [][(recorded' # recorded /\ SecondPassed(state, now))
          => LET pushed == Append(state.past_seconds,
                                  state.bytes_last_second + last_call'.bytes)
             IN  /\ state'.past_seconds =
                       IF Len(pushed) > 10
                       THEN [k \in 1 .. Len(pushed) - 1 |-> pushed[k + 1]]
                       ELSE pushed
                 /\ state'.bytes_last_second = 0
                 /\ state'.last_second = now]_vars

C16_Witness ==
    /\ last_call.flush
    /\ last_call.before > 0
    /\ Len(flushed) = Capacity + 1
    /\ Len(state.past_seconds) = Capacity
    /\ Head(state.past_seconds) = flushed[2]
    /\ state.past_seconds[Capacity] = last_call.before + last_call.bytes
    /\ state.bytes_last_second = 0
    /\ state.last_second = now
    /\ now > 0

\* C17: whenever no worker is inside update_state, total_bytes_downloaded is
\* bytes_last_second plus the sum of every value pushed onto past_seconds so
\* far, those since dropped from the front included.
C17_EveryByteInOneWindow ==
    (\A w \in Workers : wpc[w] # "update")
        => state.total_bytes_downloaded = state.bytes_last_second + SeqSum(flushed)

C17_Witness ==
    /\ \A w \in Workers : wpc[w] # "update"
    /\ Len(flushed) > Capacity
    /\ state.bytes_last_second > 0
    /\ last_call.flush = FALSE
    /\ state.bytes_last_second + SeqSum(state.past_seconds) < state.total_bytes_downloaded

\* C18: once main holds the guard for its last read, no update_state call
\* follows: every worker has returned Ok, the state no longer changes, and
\* the total of the summary is the sum of the chunks of all the workers.
C18_FinalReadAfterLastRecord ==
    /\ [](mpc \in {"summary", "done"}
            => /\ \A w \in Workers : wpc[w] = "ok"
               /\ state.total_bytes_downloaded = SumRecorded)
    /\ [](out.summary => out.total = SumRecorded)
    /\ [][(mpc \in {"summary", "done"})
            => (state' = state /\ recorded' = recorded)]_vars

C18_Witness ==
    /\ out.summary
    /\ mpc = "done"
    /\ num_cpus = 2
    /\ recorded[0] > 0
    /\ recorded[1] > 0
    /\ out.total = recorded[0] + recorded[1]

\* C19: no step of print_loop, from its wake-up to the drop of the guard,
\* changes bytes_last_second, past_seconds, last_second or
\* total_bytes_downloaded, wherever the workers are in their own calls.
C19_TickReadsOnly ==
    [][(rpc # "unspawned" /\ rpc' # rpc)
          => /\ state'.bytes_last_second = state.bytes_last_second
             /\ state'.past_seconds = state.past_seconds
             /\ state'.last_second = state.last_second
             /\ state'.total_bytes_downloaded = state.total_bytes_downloaded]_vars

C19_Witness ==
    /\ out.last = "status"
    /\ rpc = "sleep"
    /\ wake_at = now + OneSecond
    /\ state.bytes_last_second > 0
    /\ state.total_bytes_downloaded > 0
    /\ \E w \in Workers : wpc[w] = "lock_update"

\* C20: for every content length and every worker count the spawn loop
\* computes each end bound (i + 1) * bytes_per_cpu - 1 without underflow: it
\* does not panic, and the bound it writes is that number and is not smaller
\* than the start bound.
C20_NoUnderflow ==
    header.kind = "valid"
        => /\ mpc # "panicked"
           /\ \A k \in 1 .. Len(ranges) :
                ranges[k].end # <<>>
                    => /\ ranges[k].end[1] = k * bytes_per_cpu - 1
                       /\ ranges[k].end[1] >= ranges[k].start
====
